---- MODULE Spec2Model ----
(***************************************************************************)
(* Model of the xpost credential vault (xpost/encrypt.py), of the          *)
(* configuration command that drives it and of the tweet command with its  *)
(* local log (xpost/cli.py, xpost/engine.py).                              *)
(*                                                                         *)
(* Strings are sequences of code points, byte strings sequences of byte    *)
(* values.  The cryptographic primitives the code calls (PBKDF2-HMAC,      *)
(* HMAC, AES-CBC, os.urandom) are modelled symbolically: a ciphertext or a *)
(* tag is a term naming the key and the data it was computed from, and     *)
(* only the holder of the key can build such a term.  What the primitives  *)
(* do to their inputs before the cryptography (HMAC's zero padding of the  *)
(* key, base64's skipping of bytes outside its alphabet) is modelled as    *)
(* the libraries do it.                                                    *)
(***************************************************************************)
EXTENDS Integers, Sequences, FiniteSets, TLC

VARIABLES
    tweet_dir,   \* TRUE iff the directory ~/.tweet exists
    files,       \* path |-> bytes, the files under ~/.tweet
    urandom,     \* number of values os.urandom has handed out
    hist,        \* username |-> the last store that reached its vault file, while the file exists
    touched,     \* username |-> how its vault file was changed from outside since then
    out,         \* the last call: its arguments, how the file system answered it, and
                 \* what it returned, printed and raised
    calls,       \* process |-> the call it is in the middle of, when calls overlap
    overlap,     \* which calls ran at the same time as the ones that just ended
    tweets,      \* the tweet ids of the entries of tweets.json, in file order
    twitter      \* twitter.com: how many tweets it has accepted, and the ones it shows

vars == <<tweet_dir, files, urandom, hist, touched, out, calls, overlap,
          tweets, twitter>>

-----------------------------------------------------------------------------
(* Bounds *)

\* encryptions (os.urandom draws) in one behaviour
MaxEnc == 2
\* encryptions in one behaviour in which vault files are changed from outside
MaxEncEnv == 1
\* encryptions in one behaviour in which calls overlap
MaxEncRace == 2
\* tweets posted in one behaviour
MaxTweets == 3

-----------------------------------------------------------------------------
(* Inputs *)

Users == {"alice", "bob"}

\* "a", "b" and "a\x00"
Passwords == {<<97>>, <<98>>, <<97, 0>>}

Fields == <<"CLIENT_ID", "CLIENT_SECRET", "API_KEY", "API_KEY_SECRET",
            "BEARER_TOKEN", "ACCESS_TOKEN", "ACCESS_TOKEN_SECRET">>

FieldSet == {Fields[i] : i \in DOMAIN Fields}

\* the dictionary prompt_for_credentials returns when every answer but the
\* BEARER_TOKEN one is "x"
prompt_for_credentials(bearer) ==
    [f \in FieldSet |-> IF f = "BEARER_TOKEN" THEN bearer ELSE "x"]

Records == {prompt_for_credentials("t1"), prompt_for_credentials("t2")}

\* answers typed at reset's two prompts
Answers == {"Y", "yes", "n", ""}

\* Python values a call returns: None, a str, a dict
None == [none |-> TRUE]
PyStr(s) == [str |-> s]
PyDict(d) == [dict |-> d]

-----------------------------------------------------------------------------
(* Serialisation *)

\* json.dumps that loses the last pair
json_dumps_truncated(credentials) ==
    [i \in 1..(Len(Fields) - 1) |-> <<Fields[i], credentials[Fields[i]]>>]

\* json.dumps of a dict of strings: the key/value pairs in insertion order
json_dumps(credentials) ==
    [i \in DOMAIN Fields |-> <<Fields[i], credentials[Fields[i]]>>]

\* json.loads of such a text: the dict of its pairs (the last pair of a key wins)
json_loads(text) ==
    [k \in {text[i][1] : i \in DOMAIN text} |->
        LET last == CHOOSE i \in DOMAIN text :
                        /\ text[i][1] = k
                        /\ \A j \in DOMAIN text : text[j][1] = k => j <= i
        IN  text[last][2]]

\* str.encode() of one code point (UTF-8, code points below 2048)
utf8(c) == IF c < 128 THEN <<c>> ELSE <<192 + (c \div 64), 128 + (c % 64)>>

RECURSIVE str_encode(_)
\* str.encode(): the UTF-8 bytes of a string of code points
str_encode(s) == IF s = <<>> THEN <<>> ELSE utf8(Head(s)) \o str_encode(Tail(s))

\* data.encode() / decrypted_data.decode() of the JSON text
text_encode(text) == [utf8 |-> text]
bytes_decode(bytes) == bytes.utf8

-----------------------------------------------------------------------------
(* Key derivation: generate_key *)

\* salt = b"\x10" * 16: the byte 16, 16 times
salt == [byte |-> 16, times |-> 16]
iterations == 100000
length == 32
\* block size of SHA-256 in bytes, to which HMAC brings its key
sha256_block_size == 64

RECURSIVE zero_padded(_)
\* a byte string padded with zero bytes to the block size, written as the
\* string without its trailing zero bytes (the zeros that follow are implied)
zero_padded(key) ==
    IF key # <<>> /\ key[Len(key)] = 0
    THEN zero_padded(SubSeq(key, 1, Len(key) - 1))
    ELSE key

\* HMAC's key block (RFC 2104): a key longer than the block is hashed, and
\* the key is then padded with zero bytes to the block size
hmac_key_block(key) ==
    IF Len(key) > sha256_block_size
    THEN [sha256 |-> key]
    ELSE [block |-> zero_padded(key)]

\* PBKDF2HMAC(algorithm=SHA256, length, salt, iterations).derive(password_bytes):
\* a function of the HMAC key block, the salt, the iteration count and the length
PBKDF2HMAC_derive(password_bytes) ==
    [prf |-> hmac_key_block(password_bytes), salt |-> salt,
     iterations |-> iterations, length |-> length]

urlsafe_b64encode_key(raw) == [b64 |-> raw]
urlsafe_b64decode_key(key) == key.b64

generate_key(password) ==
    urlsafe_b64encode_key(PBKDF2HMAC_derive(str_encode(password)))

-----------------------------------------------------------------------------
(* Fernet *)

\* version byte of a Fernet token
FernetVersion == [byte |-> 128]

\* Fernet(key): the first half of the key signs, the second half encrypts
signing_key(key) == [of |-> urlsafe_b64decode_key(key), half |-> 1]
encryption_key(key) == [of |-> urlsafe_b64decode_key(key), half |-> 2]

AES_CBC_encrypt(k, iv, plaintext) == [aes |-> k, iv |-> iv, pt |-> plaintext]
HMAC_SHA256(k, msg) == [hmac |-> k, msg |-> msg]

\* an alphabet symbol that is none of the token's own
Garbage == [b64 |-> [garbage |-> TRUE]]
\* a byte outside the base64 alphabet
Newline == [ws |-> "\n"]

\* base64.urlsafe_b64encode of the token: one alphabet symbol per part
urlsafe_b64encode(data) == [i \in DOMAIN data |-> [b64 |-> data[i]]]

IsAlphabet(ch) == "b64" \in DOMAIN ch

\* base64.urlsafe_b64decode (not strict): bytes outside the alphabet are skipped
urlsafe_b64decode(s) ==
    LET kept == SelectSeq(s, IsAlphabet)
    IN  [i \in DOMAIN kept |-> kept[i].b64]

\* Fernet(key).encrypt(data) with a constant IV in place of the one os.urandom gave
Fernet_encrypt_constant_iv(key, data, iv) ==
    LET basic == <<FernetVersion, [iv |-> 0], AES_CBC_encrypt(encryption_key(key), 0, data)>>
    IN  urlsafe_b64encode(Append(basic, HMAC_SHA256(signing_key(key), basic)))

\* Fernet(key).encrypt(data) with the IV os.urandom gave:
\* version || timestamp and IV || AES-CBC ciphertext || HMAC over what precedes
Fernet_encrypt(key, data, iv) ==
    LET basic == <<FernetVersion, [iv |-> iv], AES_CBC_encrypt(encryption_key(key), iv, data)>>
    IN  urlsafe_b64encode(Append(basic, HMAC_SHA256(signing_key(key), basic)))

InvalidToken == [exc |-> "InvalidToken"]

\* Fernet(key).decrypt(token) that does not verify the HMAC
Fernet_decrypt_unverified(key, token) ==
    LET data == urlsafe_b64decode(token)
        n == Len(data)
    IN  IF n = 0 \/ data[1] # FernetVersion THEN InvalidToken
        ELSE IF n < 2 THEN InvalidToken
        ELSE LET ciphertext == SubSeq(data, 3, n - 1)
             IN  IF /\ "iv" \in DOMAIN data[2]
                    /\ Len(ciphertext) = 1
                    /\ "pt" \in DOMAIN ciphertext[1]
                    /\ ciphertext[1] = AES_CBC_encrypt(encryption_key(key), data[2].iv,
                                                       ciphertext[1].pt)
                 THEN [exc |-> "none", pt |-> ciphertext[1].pt]
                 ELSE InvalidToken

\* Fernet(key).decrypt(token): the plaintext, or InvalidToken
Fernet_decrypt(key, token) ==
    LET data == urlsafe_b64decode(token)
        n == Len(data)
    IN  IF n = 0 \/ data[1] # FernetVersion THEN InvalidToken
        ELSE IF n < 2 THEN InvalidToken
        ELSE IF data[n] # HMAC_SHA256(signing_key(key), SubSeq(data, 1, n - 1))
             THEN InvalidToken
        ELSE LET ciphertext == SubSeq(data, 3, n - 1)
             IN  IF /\ "iv" \in DOMAIN data[2]
                    /\ Len(ciphertext) = 1
                    /\ "pt" \in DOMAIN ciphertext[1]
                    /\ ciphertext[1] = AES_CBC_encrypt(encryption_key(key), data[2].iv,
                                                       ciphertext[1].pt)
                 THEN [exc |-> "none", pt |-> ciphertext[1].pt]
                 ELSE InvalidToken

\* CredentialManager.encrypt_data
encrypt_data(data, password, iv) ==
    Fernet_encrypt(generate_key(password), text_encode(data), iv)

\* CredentialManager.decrypt_data: the decrypted text, or the exception raised
decrypt_data(encrypted_data, password) ==
    LET r == Fernet_decrypt(generate_key(password), encrypted_data)
    IN  IF r.exc = "none" THEN [exc |-> "none", text |-> bytes_decode(r.pt)] ELSE r

-----------------------------------------------------------------------------
(* Lengths in bytes: what decides which bytes a write replaces *)

\* len() of a Python str
RECURSIVE pairs_len(_)
pairs_len(text) ==
    IF text = <<>> THEN 0
    ELSE Len(text[1][1]) + Len(text[1][2]) + 6 + pairs_len(Tail(text))

\* len(json.dumps(d)): "{", the pairs as "k": "v" joined by ", ", and "}"
json_len(text) ==
    IF text = <<>> THEN 2 ELSE 2 + pairs_len(text) + 2 * (Len(text) - 1)

\* length of the AES-CBC ciphertext of n bytes: PKCS7 pads to the next block of 16
aes_cbc_len(n) == ((n \div 16) + 1) * 16

\* length of a Fernet token before base64: version, timestamp, IV, ciphertext, HMAC
fernet_len(n) == 1 + 8 + 16 + aes_cbc_len(n) + 32

\* length of the base64 text of n bytes, and how many "=" end it
b64_len(n) == 4 * ((n + 2) \div 3)
b64_padding(n) == (3 - (n % 3)) % 3

\* a token written by encrypt_data: the plaintext it encrypts and its lengths
token_text(token) == token[3].b64.pt.utf8
token_raw_len(token) == fernet_len(json_len(token_text(token)))
token_len(token) == b64_len(token_raw_len(token))

\* what is left of a longer file behind a shorter token written over its start:
\* base64 text that the decoder reads on when the token ends without "=", and
\* that it never reaches when the token ends with "="
Rest(token, upto) ==
    IF b64_padding(token_raw_len(token)) = 0
    THEN [b64 |-> [rest |-> TRUE], upto |-> upto]
    ELSE [rest |-> TRUE, upto |-> upto]

\* size of a vault file
file_len(bytes) ==
    IF bytes = <<>> THEN 0
    ELSE IF "upto" \in DOMAIN bytes[Len(bytes)] THEN bytes[Len(bytes)].upto
    ELSE token_len(bytes)

\* the file after write(fd, data) at offset 0 of a descriptor opened before
\* the bytes in old were written: data replaces the first len(data) bytes
pwrite(old, data) ==
    IF file_len(old) <= token_len(data) THEN data
    ELSE Append(data, Rest(data, file_len(old)))

-----------------------------------------------------------------------------
(* The vault directory *)

\* CredentialManager.__init__: self.credentials_file
credentials_file(username) == "~/.tweet/" \o username \o "-PBKDF2HMAC"

\* the files map without the paths in gone
Remove(fs, gone) == [p \in DOMAIN fs \ gone |-> fs[p]]

\* the files map with path holding bytes
WriteFile(fs, path, bytes) ==
    [p \in DOMAIN fs \cup {path} |-> IF p = path THEN bytes ELSE fs[p]]

\* ways the file system can fail a call for reasons outside the program
StoreFaults == {"ok", "makedirs", "write"}
LoadFaults == {"ok", "read"}
ResetFaults == {"ok", "rmtree"}

\* save_credentials whose write stops before the last part of the data
save_credentials_short_write(username, encrypted_data, fault) ==
    LET path == credentials_file(username)
    IN  IF fault = "makedirs" /\ ~tweet_dir
        THEN [dir |-> tweet_dir, files |-> files, printed |-> {}, exc |-> "OSError"]
        ELSE IF fault = "write"
        THEN [dir |-> TRUE, files |-> WriteFile(files, path, <<>>),
              printed |-> {}, exc |-> "OSError"]
        ELSE [dir |-> TRUE,
              files |-> WriteFile(files, path,
                                  SubSeq(encrypted_data, 1, Len(encrypted_data) - 1)),
              printed |-> {"Credentials encrypted and stored successfully."},
              exc |-> "none"]

\* save_credentials that opens the file to append ("ab") and not to truncate
save_credentials_appending(username, encrypted_data, fault) ==
    LET path == credentials_file(username)
        old == IF path \in DOMAIN files THEN files[path] ELSE <<>>
    IN  IF fault = "makedirs" /\ ~tweet_dir
        THEN [dir |-> tweet_dir, files |-> files, printed |-> {}, exc |-> "OSError"]
        ELSE IF fault = "write"
        THEN [dir |-> TRUE, files |-> WriteFile(files, path, old),
              printed |-> {}, exc |-> "OSError"]
        ELSE [dir |-> TRUE, files |-> WriteFile(files, path, old \o encrypted_data),
              printed |-> {"Credentials encrypted and stored successfully."},
              exc |-> "none"]

\* CredentialManager.save_credentials: the directory and files it leaves, what
\* it prints and the exception it ends with.  A write that fails (the buffered
\* bytes are refused when the file is flushed) leaves the truncated file empty.
save_credentials(username, encrypted_data, fault) ==
    LET path == credentials_file(username)
    IN  IF fault = "makedirs" /\ ~tweet_dir
        THEN [dir |-> tweet_dir, files |-> files, printed |-> {}, exc |-> "OSError"]
        ELSE IF fault = "write"
        THEN [dir |-> TRUE, files |-> WriteFile(files, path, <<>>),
              printed |-> {}, exc |-> "OSError"]
        ELSE [dir |-> TRUE, files |-> WriteFile(files, path, encrypted_data),
              printed |-> {"Credentials encrypted and stored successfully."},
              exc |-> "none"]

FileNotFoundMessage ==
    "Credentials file not found. This could be due to a non-existent username, a typo in the username, or the credentials file might have been moved or deleted."
InvalidPasswordMessage == "Invalid password provided. Unable to decrypt credentials."

\* load_credentials without its handler of FileNotFoundError
load_credentials_unhandled(username, password, fault) ==
    LET path == credentials_file(username)
    IN  IF path \notin DOMAIN files
        THEN [ret |-> None, printed |-> {}, exc |-> "FileNotFoundError"]
        ELSE IF fault = "read"
        THEN [ret |-> None, printed |-> {}, exc |-> "PermissionError"]
        ELSE LET d == decrypt_data(files[path], password)
             IN  IF d.exc = "InvalidToken"
                 THEN [ret |-> None, printed |-> {InvalidPasswordMessage}, exc |-> "none"]
                 ELSE [ret |-> PyDict(json_loads(d.text)), printed |-> {}, exc |-> "none"]

\* load_credentials deriving its key from the username and the password
load_credentials_key_per_user(username, password, fault) ==
    LET path == credentials_file(username)
        salted == (IF username = "alice" THEN <<1>> ELSE <<2>>) \o password
    IN  IF path \notin DOMAIN files
        THEN [ret |-> None, printed |-> {FileNotFoundMessage}, exc |-> "none"]
        ELSE IF fault = "read"
        THEN [ret |-> None, printed |-> {}, exc |-> "PermissionError"]
        ELSE LET d == decrypt_data(files[path], salted)
             IN  IF d.exc = "InvalidToken"
                 THEN [ret |-> None, printed |-> {InvalidPasswordMessage}, exc |-> "none"]
                 ELSE [ret |-> PyDict(json_loads(d.text)), printed |-> {}, exc |-> "none"]

\* CredentialManager.load_credentials: what it returns, prints and raises
load_credentials(username, password, fault) ==
    LET path == credentials_file(username)
    IN  IF path \notin DOMAIN files
        THEN [ret |-> None, printed |-> {FileNotFoundMessage}, exc |-> "none"]
        ELSE IF fault = "read"
        THEN [ret |-> None, printed |-> {}, exc |-> "PermissionError"]
        ELSE LET d == decrypt_data(files[path], password)
             IN  IF d.exc = "InvalidToken"
                 THEN [ret |-> None, printed |-> {InvalidPasswordMessage}, exc |-> "none"]
                 ELSE [ret |-> PyDict(json_loads(d.text)), printed |-> {}, exc |-> "none"]

\* CredentialCLI.load
load(usr, passwd, fault) ==
    LET r == load_credentials(usr, passwd, fault)
    IN  IF r.exc = "none"
        THEN r
        ELSE [ret |-> None, printed |-> r.printed \cup {"Error: " \o r.exc},
              exc |-> "none"]

DeletedMessage == "All user files in ~/.tweet have been successfully deleted."
NoDirectoryMessage == "No ~/.tweet directory found."

\* force_delete that removes the directory only when it is empty
force_delete_rmdir(fault, survivors) ==
    IF tweet_dir
    THEN IF fault = "rmtree"
         THEN [dir |-> TRUE, files |-> Remove(files, DOMAIN files \ survivors),
               printed |-> {"An unexpected error occurred: OSError"},
               ret |-> None]
         ELSE [dir |-> DOMAIN files # {}, files |-> files,
               printed |-> {DeletedMessage},
               ret |-> PyStr("success")]
    ELSE [dir |-> tweet_dir, files |-> files,
          printed |-> {NoDirectoryMessage,
                       "This could be due to no data was loaded before testing."},
          ret |-> None]

\* force_delete: shutil.rmtree of ~/.tweet.  A failing rmtree leaves the
\* directory with the files in survivors.
force_delete(fault, survivors) ==
    IF tweet_dir
    THEN IF fault = "rmtree"
         THEN [dir |-> TRUE, files |-> Remove(files, DOMAIN files \ survivors),
               printed |-> {"An unexpected error occurred: OSError"},
               ret |-> None]
         ELSE [dir |-> FALSE, files |-> Remove(files, DOMAIN files),
               printed |-> {DeletedMessage},
               ret |-> PyStr("success")]
    ELSE [dir |-> tweet_dir, files |-> files,
          printed |-> {NoDirectoryMessage,
                       "This could be due to no data was loaded before testing."},
          ret |-> None]

\* str.lower() of an answer
lower(answer) ==
    CASE answer = "Y" -> "y"
      [] answer \in {"YES", "Yes"} -> "yes"
      [] answer = "N" -> "n"
      [] OTHER -> answer

CancelledMessage == "Operation cancelled. Your files remain at ~/.tweet"

\* reset that asks for one confirmation only
reset_single_confirmation(delete_data, confirm_delete, fault, survivors) ==
    IF lower(delete_data) = "y"
    THEN LET d == force_delete(fault, survivors)
         IN  [dir |-> d.dir, files |-> d.files,
              printed |-> d.printed \cup
                  (IF d.ret = PyStr("success")
                   THEN {"Data deletion successfull."} ELSE {}),
              called |-> TRUE, ret |-> None]
    ELSE [dir |-> tweet_dir, files |-> files, printed |-> {CancelledMessage},
          called |-> FALSE, ret |-> None]

\* CredentialCLI.reset: the directory and files it leaves, what it prints and
\* what it returns
reset(delete_data, confirm_delete, fault, survivors) ==
    IF lower(delete_data) = "y"
    THEN IF lower(confirm_delete) \in {"y", "yes"}
         THEN LET d == force_delete(fault, survivors)
              IN  [dir |-> d.dir, files |-> d.files,
                   printed |-> d.printed \cup
                       (IF d.ret = PyStr("success")
                        THEN {"Data deletion successfull."} ELSE {}),
                   called |-> TRUE, ret |-> None]
         ELSE [dir |-> tweet_dir, files |-> files, printed |-> {CancelledMessage},
               called |-> FALSE, ret |-> None]
    ELSE [dir |-> tweet_dir, files |-> files, printed |-> {CancelledMessage},
          called |-> FALSE, ret |-> None]

-----------------------------------------------------------------------------
(* State *)

NoStores == [u \in Users |-> <<>>]
Untouched == [u \in Users |-> "no"]

\* the bytes at path, none when there is no such file
Content(path) == IF path \in DOMAIN files THEN files[path] ELSE <<>>

\* the processes that can be in a call at the same time
Procs == {1, 2}
NoCalls == [p \in Procs |-> [pc |-> "idle"]]
NoOverlap == [writers |-> {}, during |-> {}]

Idle == [op |-> "none", usr |-> "", passwd |-> <<>>, answers |-> <<>>,
         fault |-> "ok", ret |-> None, printed |-> {}, raised |-> "none",
         removed |-> {}]

Init ==
    /\ tweet_dir = FALSE
    /\ files = <<>>
    /\ urandom = 0
    /\ hist = NoStores
    /\ touched = Untouched
    /\ out = Idle
    /\ calls = NoCalls
    /\ overlap = NoOverlap
    /\ tweets = <<>>
    /\ twitter = [accepted |-> 0, shown |-> {}]

\* the record of the completed store under the same password that a store
\* follows for the same user, None when it follows no such store
Before(h, passwd) ==
    IF h = <<>> \/ h[1].raised # "none" \/ h[1].passwd # passwd
    THEN None
    ELSE PyDict(h[1].creds)

\* the password of the completed store that a store under another password
\* overwrites, None when it overwrites no such store
Over(h, passwd) ==
    IF h = <<>> \/ h[1].raised # "none" \/ h[1].passwd = passwd
    THEN None
    ELSE [passwd |-> h[1].passwd]

\* whether a store wrote other bytes than the store it follows
Fresh(h, bytes) == h = <<>> \/ h[1].bytes # bytes

-----------------------------------------------------------------------------
(* Operations *)

\* CredentialCLI.store(usr, passwd), the user answering the prompts with creds
store(usr, passwd, creds, fault) ==
    LET taking_apis == creds
        encrypted_data == encrypt_data(json_dumps(taking_apis), passwd, urandom + 1)
        s == save_credentials(usr, encrypted_data, fault)
    IN  /\ urandom < MaxEnc
        /\ fault = "makedirs" => ~tweet_dir
        /\ urandom' = urandom + 1
        /\ tweet_dir' = s.dir
        /\ files' = s.files
        /\ IF s.exc # "none" /\ s.files = files
           THEN UNCHANGED <<hist, touched>>
           ELSE /\ hist' = [hist EXCEPT ![usr] =
                              <<[passwd |-> passwd, creds |-> taking_apis,
                                 bytes |-> encrypted_data, raised |-> s.exc,
                                 before |-> Before(@, passwd),
                                 over |-> Over(@, passwd),
                                 fresh |-> Fresh(@, encrypted_data)]>>]
                /\ touched' = [touched EXCEPT ![usr] = "no"]
        /\ out' = [op |-> "store", usr |-> usr, passwd |-> passwd, answers |-> <<>>,
                   fault |-> fault, ret |-> None,
                   printed |-> IF s.exc = "none"
                               THEN {"Saving your encrypted data..."} \cup s.printed
                                    \cup {"Saving completed. Data stored at: ~/.tweet"}
                               ELSE {"Saving your encrypted data..."},
                   raised |-> s.exc, removed |-> {}]

Store(faults) ==
    \E usr \in Users, passwd \in Passwords, creds \in Records,
       fault \in faults :
        /\ store(usr, passwd, creds, fault)
        /\ UNCHANGED <<calls, overlap, tweets, twitter>>

\* a load whose CredentialManager makes the directory when it is constructed
Load_makedirs(faults) ==
    \E usr \in Users, passwd \in Passwords, fault \in faults :
        LET r == load(usr, passwd, fault)
        IN  /\ fault = "read" => credentials_file(usr) \in DOMAIN files
            /\ out' = [op |-> "load", usr |-> usr, passwd |-> passwd,
                       answers |-> <<>>, fault |-> fault, ret |-> r.ret,
                       printed |-> r.printed,
                       raised |-> r.exc, removed |-> {}]
            /\ tweet_dir' = TRUE
            /\ UNCHANGED <<files, urandom, hist, touched, calls, overlap, tweets, twitter>>

\* CredentialCLI.load(usr, passwd)
Load(faults) ==
    \E usr \in Users, passwd \in Passwords, fault \in faults :
        LET r == load(usr, passwd, fault)
        IN  /\ fault = "read" => credentials_file(usr) \in DOMAIN files
            /\ out' = [op |-> "load", usr |-> usr, passwd |-> passwd,
                       answers |-> <<>>, fault |-> fault, ret |-> r.ret,
                       printed |-> r.printed,
                       raised |-> r.exc, removed |-> {}]
            /\ UNCHANGED <<tweet_dir, files, urandom, hist, touched, calls, overlap, tweets, twitter>>

\* tweet_config, the reset command: CredentialCLI().reset() and its report
tweet_config_reset(delete_data, confirm_delete, fault, survivors) ==
    LET r == reset(delete_data, confirm_delete, fault, survivors)
        files_deleted == r.ret
    IN  /\ fault = "rmtree" => tweet_dir /\ r.called
        /\ survivors # {} => fault = "rmtree"
        /\ tweet_dir' = r.dir
        /\ files' = r.files
        /\ hist' = [u \in Users |->
                        IF credentials_file(u) \in DOMAIN r.files THEN hist[u] ELSE <<>>]
        /\ touched' = [u \in Users |->
                        IF credentials_file(u) \in DOMAIN r.files THEN touched[u] ELSE "no"]
        /\ out' = [op |-> "reset", usr |-> "", passwd |-> <<>>,
                   answers |-> <<delete_data, confirm_delete>>, fault |-> fault,
                   ret |-> files_deleted,
                   printed |-> r.printed \cup
                       (IF files_deleted = PyStr("success")
                        THEN {"Credentials successfully reset."} ELSE {}),
                   raised |-> "none", removed |-> DOMAIN files \ DOMAIN r.files]
        /\ UNCHANGED <<urandom, calls, overlap, tweets, twitter>>

\* the second question is asked only after a "y" to the first: without it
\* there is no second answer
Reset(faults) ==
    \E delete_data \in Answers :
        \E confirm_delete \in IF lower(delete_data) = "y" THEN Answers ELSE {""} :
            \E fault \in faults, survivors \in SUBSET DOMAIN files :
                tweet_config_reset(delete_data, confirm_delete, fault, survivors)

-----------------------------------------------------------------------------
(* The environment: a vault file changed from outside the program *)

\* the vault file of usr made to hold bytes: its own bytes edited, or the
\* file replaced by another.  One vault file at a time is in a changed state.
Tamper(usr, bytes, how) ==
    /\ touched = Untouched
    /\ files' = WriteFile(files, credentials_file(usr), bytes)
    /\ touched' = [touched EXCEPT ![usr] = how]
    /\ out' = Idle
    /\ UNCHANGED <<tweet_dir, urandom, hist, calls, overlap, tweets, twitter>>

\* one byte of the file replaced by another
FlipByte ==
    \E usr \in Users :
        /\ credentials_file(usr) \in DOMAIN files
        /\ \E i \in DOMAIN files[credentials_file(usr)] :
              /\ files[credentials_file(usr)][i] # Garbage
              /\ Tamper(usr, [files[credentials_file(usr)] EXCEPT ![i] = Garbage], "edited")

\* the file cut short, or emptied
Truncate ==
    \E usr \in Users :
        /\ credentials_file(usr) \in DOMAIN files
        /\ \E n \in 0..3 :
              /\ n < Len(files[credentials_file(usr)])
              /\ Tamper(usr, SubSeq(files[credentials_file(usr)], 1, n), "edited")

\* a newline added at the end of the file
AppendNewline ==
    \E usr \in Users :
        /\ credentials_file(usr) \in DOMAIN files
        /\ Tamper(usr, Append(files[credentials_file(usr)], Newline), "edited")

\* the vault file of one user placed as the vault file of another
CopyFile ==
    \E from \in Users, to \in Users :
        /\ from # to
        /\ credentials_file(from) \in DOMAIN files
        /\ Tamper(to, files[credentials_file(from)], "replaced")

-----------------------------------------------------------------------------
(* Calls that overlap: two processes working on the same vault file *)

RaceUsers == {"alice"}
RacePasswords == {<<97>>, <<98>>}
\* records whose tokens differ in length: 150, 176 and 192 bytes of JSON
RaceRecords ==
    {prompt_for_credentials("t1"),
     prompt_for_credentials("bbbbbbbbbbbbbbbbbbbbbbbbbbbb"),
     prompt_for_credentials("cccccccccccccccccccccccccccccccccccccccccccc")}

\* the stores that have opened the vault file of usr and not yet closed it
StoresInFlight(usr) ==
    {[k \in {"usr", "passwd", "creds", "bytes", "before"} |-> calls[q][k]] :
        q \in {r \in Procs : /\ calls[r].pc # "idle"
                             /\ calls[r].op = "store"
                             /\ calls[r].usr = usr}}

\* the record a load(usr, passwd) would return from the file as it is
Holds(usr, passwd) ==
    IF credentials_file(usr) \notin DOMAIN files THEN None
    ELSE load_credentials(usr, passwd, "ok").ret

\* store up to open(self.credentials_file, "wb"): the record is encrypted, the
\* directory made, and the file created or truncated
StoreOpen(p) ==
    \E usr \in RaceUsers, passwd \in RacePasswords, creds \in RaceRecords :
        LET encrypted_data == encrypt_data(json_dumps(creds), passwd, urandom + 1)
            me == [usr |-> usr, passwd |-> passwd, creds |-> creds,
                   bytes |-> encrypted_data, before |-> Holds(usr, passwd)]
        IN  /\ calls[p].pc = "idle"
            /\ urandom < MaxEncRace
            /\ urandom' = urandom + 1
            /\ tweet_dir' = TRUE
            /\ files' = WriteFile(files, credentials_file(usr), <<>>)
            /\ calls' = [q \in Procs |->
                            IF q = p
                            THEN [pc |-> "opened", op |-> "store", usr |-> usr,
                                  passwd |-> passwd, creds |-> creds,
                                  bytes |-> encrypted_data, before |-> me.before]
                            ELSE IF /\ calls[q].pc # "idle"
                                    /\ calls[q].op = "load"
                                    /\ calls[q].usr = usr
                            THEN [calls[q] EXCEPT !.during = @ \cup {me}]
                            ELSE calls[q]]
            /\ overlap' = [overlap EXCEPT !.writers =
                              IF StoresInFlight(usr) = {} THEN {me} ELSE @ \cup {me}]
            /\ UNCHANGED <<hist, touched, out, tweets, twitter>>

\* the rest of store: f.write(encrypted_data) and the end of the with block,
\* where the buffered bytes go to the file at the descriptor's offset 0
StoreClose(p) ==
    /\ calls[p].pc = "opened"
    /\ calls[p].op = "store"
    /\ files' = WriteFile(files, credentials_file(calls[p].usr),
                          pwrite(Content(credentials_file(calls[p].usr)),
                                 calls[p].bytes))
    /\ out' = [op |-> "store", usr |-> calls[p].usr, passwd |-> calls[p].passwd,
               answers |-> <<>>, fault |-> "ok", ret |-> None,
               printed |-> {"Saving your encrypted data...",
                            "Credentials encrypted and stored successfully.",
                            "Saving completed. Data stored at: ~/.tweet"},
               raised |-> "none", removed |-> {}]
    /\ calls' = [calls EXCEPT ![p] = [pc |-> "idle"]]
    /\ UNCHANGED <<tweet_dir, urandom, hist, touched, overlap, tweets, twitter>>

\* load up to open(self.credentials_file, "rb"); a missing file ends the call
LoadOpen(p) ==
    \E usr \in RaceUsers, passwd \in RacePasswords :
        /\ calls[p].pc = "idle"
        /\ IF credentials_file(usr) \notin DOMAIN files
           THEN LET r == load(usr, passwd, "ok")
                IN  /\ out' = [op |-> "load", usr |-> usr, passwd |-> passwd,
                               answers |-> <<>>, fault |-> "ok", ret |-> r.ret,
                               printed |-> r.printed, raised |-> r.exc,
                               removed |-> {}]
                    /\ overlap' = [overlap EXCEPT !.during = StoresInFlight(usr)]
                    /\ UNCHANGED calls
           ELSE /\ calls' = [calls EXCEPT ![p] =
                               [pc |-> "opened", op |-> "load", usr |-> usr,
                                passwd |-> passwd, during |-> StoresInFlight(usr)]]
                /\ UNCHANGED <<out, overlap>>
        /\ UNCHANGED <<tweet_dir, files, urandom, hist, touched, tweets, twitter>>

\* the rest of load: f.read() of the file as it is now, and the decryption
LoadRead(p) ==
    /\ calls[p].pc = "opened"
    /\ calls[p].op = "load"
    /\ LET r == load(calls[p].usr, calls[p].passwd, "ok")
       IN  out' = [op |-> "load", usr |-> calls[p].usr, passwd |-> calls[p].passwd,
                   answers |-> <<>>, fault |-> "ok", ret |-> r.ret,
                   printed |-> r.printed, raised |-> r.exc, removed |-> {}]
    /\ overlap' = [overlap EXCEPT !.during = calls[p].during]
    /\ calls' = [calls EXCEPT ![p] = [pc |-> "idle"]]
    /\ UNCHANGED <<tweet_dir, files, urandom, hist, touched, tweets, twitter>>

-----------------------------------------------------------------------------
(* add_user_credentials: the command that asks for a password twice *)

\* the process of the command line
Terminal == {1}

\* add_user_credentials up to the first test of the while loop: the username,
\* the password and its confirmation are read
AddUserPrompt(p) ==
    \E username \in Users, password \in Passwords,
       password_confirmation \in Passwords :
        /\ calls[p].pc = "idle"
        /\ calls' = [calls EXCEPT ![p] =
                        [pc |-> "while", op |-> "add_user", username |-> username,
                         password |-> password,
                         password_confirmation |-> password_confirmation,
                         confirmation_chances |-> 0]]
        /\ out' = [Idle EXCEPT !.op = "add_user", !.usr = username]
        /\ UNCHANGED <<tweet_dir, files, urandom, hist, touched, overlap, tweets, twitter>>

\* one turn of the while loop: the passwords differ, both are asked again, and
\* after the second turn the command exits with status 1
AddUserRetry(p) ==
    \E password \in Passwords, password_confirmation \in Passwords :
        LET confirmation_chances == calls[p].confirmation_chances + 1
            printed == out.printed \cup {"Passwords do not match. Please try again."}
        IN  /\ calls[p].pc = "while"
            /\ calls[p].password # calls[p].password_confirmation
            /\ IF confirmation_chances = 2
               THEN /\ calls' = [calls EXCEPT ![p] = [pc |-> "idle"]]
                    /\ out' = [out EXCEPT
                                  !.printed = printed \cup
                                      {"Maximum attempt limit reached. Exiting."},
                                  !.raised = "SystemExit",
                                  !.ret = [status |-> 1]]
               ELSE /\ calls' = [calls EXCEPT ![p] =
                                   [@ EXCEPT !.password = password,
                                             !.password_confirmation = password_confirmation,
                                             !.confirmation_chances = confirmation_chances]]
                    /\ out' = [out EXCEPT !.printed = printed]
            /\ UNCHANGED <<tweet_dir, files, urandom, hist, touched, overlap, tweets, twitter>>

\* AddUserStore without the test of the while loop
AddUserStore_unconfirmed(p) ==
    \E creds \in Records :
        /\ calls[p].pc = "while"
        /\ store(calls[p].username, calls[p].password, creds, "ok")
        /\ calls' = [calls EXCEPT ![p] = [pc |-> "stored"]]
        /\ UNCHANGED <<overlap, tweets, twitter>>

\* the loop left with equal passwords: CredentialCLI().store(username, password)
AddUserStore(p) ==
    \E creds \in Records :
        /\ calls[p].pc = "while"
        /\ calls[p].password = calls[p].password_confirmation
        /\ store(calls[p].username, calls[p].password, creds, "ok")
        /\ calls' = [calls EXCEPT ![p] = [pc |-> "stored"]]
        /\ UNCHANGED <<overlap, tweets, twitter>>

\* the last line: the report that the credentials were added
AddUserDone(p) ==
    /\ calls[p].pc = "stored"
    /\ out' = [out EXCEPT !.printed = @ \cup {"User credentials successfully added."}]
    /\ calls' = [calls EXCEPT ![p] = [pc |-> "idle"]]
    /\ UNCHANGED <<tweet_dir, files, urandom, hist, touched, overlap, tweets, twitter>>

-----------------------------------------------------------------------------
(* The tweet command: posting and deleting, and the log tweets.json *)

\* what CredentialCLI().load gave the command
Apis == {None} \cup {PyDict(r) : r \in Records}
\* how twitter.com answers a request
Remote == {"ok", "error"}

\* the entries of the log without those of tweet_id
Without(log, tweet_id) == SelectSeq(log, LAMBDA t : t # tweet_id)

\* TwitterBot(apis): authenticate ends the process when the credentials are
\* not a dict
authenticate(apis) == IF apis = None THEN "SystemExit" ELSE "none"

ExitOf(op) ==
    [Idle EXCEPT !.op = op, !.raised = "SystemExit", !.ret = [status |-> 1],
                 !.printed = {"Error during authentication"}]

\* tweet --post: post_tweet, then save_tweet_info, which asks twitter.com for
\* the username before it appends the entry
tweet_post(apis, remote, details) ==
    IF authenticate(apis) # "none"
    THEN /\ out' = ExitOf("post")
         /\ UNCHANGED <<tweets, twitter>>
    ELSE IF remote = "error"
    THEN /\ out' = [ExitOf("post") EXCEPT !.printed = {"Error posting tweet"}]
         /\ UNCHANGED <<tweets, twitter>>
    ELSE LET tweet_id == twitter.accepted + 1
         IN  /\ twitter.accepted < MaxTweets
             /\ twitter' = [accepted |-> tweet_id,
                            shown |-> twitter.shown \cup {tweet_id}]
             /\ IF details = "error"
                THEN /\ UNCHANGED tweets
                     /\ out' = [Idle EXCEPT
                                   !.op = "post", !.fault = details,
                                   !.printed = {"Tweet successfully posted.",
                                                "Error retrieving user details",
                                                "An error occurred while posting the tweet"}]
                ELSE /\ tweets' = Append(tweets, tweet_id)
                     /\ out' = [Idle EXCEPT
                                   !.op = "post",
                                   !.printed = {"Tweet successfully posted.",
                                                "Twitter post:",
                                                "Tweet info saved to the database."}]

TweetPost ==
    \E apis \in Apis, remote \in Remote, details \in Remote :
        /\ tweet_post(apis, remote, details)
        /\ UNCHANGED <<tweet_dir, files, urandom, hist, touched, calls, overlap>>

\* TwitterBot.delete_tweet: the tweets twitter.com shows afterwards and what is
\* logged; twitter.com refuses to delete a tweet it does not show
delete_tweet(tweet_id, remote) ==
    IF remote = "ok" /\ tweet_id \in twitter.shown
    THEN [shown |-> twitter.shown \ {tweet_id},
          logged |-> {"Tweet deleted successfully from twitter.com"}]
    ELSE [shown |-> twitter.shown, logged |-> {"Error occurred"}]

\* save_tweet_info(tweet_id, delete=True): the log afterwards and what is logged
save_tweet_info_delete(tweet_id) ==
    IF \E i \in DOMAIN tweets : tweets[i] = tweet_id
    THEN [tweets |-> Without(tweets, tweet_id),
          logged |-> {"Tweet removed from database."}]
    ELSE [tweets |-> tweets, logged |-> {"Tweet not found in database."}]

\* tweet --delete tweet_id
tweet_delete(apis, tweet_id, remote) ==
    IF authenticate(apis) # "none"
    THEN /\ out' = ExitOf("delete")
         /\ UNCHANGED <<tweets, twitter>>
    ELSE LET d == delete_tweet(tweet_id, remote)
             s == save_tweet_info_delete(tweet_id)
         IN  /\ twitter' = [twitter EXCEPT !.shown = d.shown]
             /\ tweets' = s.tweets
             /\ out' = [Idle EXCEPT
                           !.op = "delete", !.answers = <<tweet_id>>,
                           !.fault = IF "Error occurred" \in d.logged
                                     THEN "delete_tweet" ELSE "ok",
                           !.printed = d.logged \cup s.logged
                                       \cup {"Tweet successfully deleted."}]

TweetDelete ==
    \E apis \in Apis, tweet_id \in 1..MaxTweets, remote \in Remote :
        /\ tweet_delete(apis, tweet_id, remote)
        /\ UNCHANGED <<tweet_dir, files, urandom, hist, touched, calls, overlap>>

\* the program, run one command at a time, on a file system that can fail
Next == Store(StoreFaults) \/ Load(LoadFaults) \/ Reset(ResetFaults)

Spec == Init /\ [][Next]_vars

\* the program on a file system that does not fail, its vault files open to
\* changes from outside
NextEnv ==
    \/ (urandom < MaxEncEnv /\ Store({"ok"}))
    \/ Load({"ok"}) \/ Reset({"ok"})
    \/ FlipByte \/ Truncate \/ AppendNewline \/ CopyFile

SpecEnv == Init /\ [][NextEnv]_vars

\* two processes whose store and load calls on a vault file overlap, on a file
\* system that does not fail
NextRace ==
    \E p \in Procs : StoreOpen(p) \/ StoreClose(p) \/ LoadOpen(p) \/ LoadRead(p)

SpecRace == Init /\ [][NextRace]_vars

\* the add_user command, prompt by prompt, and load
NextAddUser ==
    \/ \E p \in Terminal :
          AddUserPrompt(p) \/ AddUserRetry(p) \/ AddUserStore(p) \/ AddUserDone(p)
    \/ (calls = NoCalls /\ Load({"ok"}))

SpecAddUser == Init /\ [][NextAddUser]_vars

\* the tweet command, run one at a time
NextTweet == TweetPost \/ TweetDelete

SpecTweet == Init /\ [][NextTweet]_vars

-----------------------------------------------------------------------------
(* Vocabulary of the claims *)

\* the last call was a load(usr, passwd) whose read of the file did not fail
Loaded == out.op = "load" /\ out.fault = "ok"

\* the last store that reached the vault file of usr completed
Stored(usr) == hist[usr] # <<>> /\ hist[usr][1].raised = "none"

\* the outcomes of a load
ReturnsRecord(creds) ==
    out.ret = PyDict(creds) /\ out.printed = {} /\ out.raised = "none"
AuthenticationFailed ==
    out.ret = None /\ out.printed = {InvalidPasswordMessage} /\ out.raised = "none"
NotFound ==
    out.ret = None /\ out.printed = {FileNotFoundMessage} /\ out.raised = "none"

\* the last call was a reset the user confirmed at both prompts
ConfirmedReset ==
    /\ out.op = "reset"
    /\ out.answers[1] \in {"y", "Y"}
    /\ out.answers[2] \in {"y", "Y", "yes", "Yes", "YES"}

-----------------------------------------------------------------------------
(* Claims *)

\* C1 (round trip): a load(U, P) that follows a completed store(U, P, R) for
\* U, with no reset and no change of the file in between, returns R.
C1_RoundTrip ==
    (/\ Loaded
     /\ Stored(out.usr)
     /\ touched[out.usr] = "no"
     /\ hist[out.usr][1].passwd = out.passwd)
    => ReturnsRecord(hist[out.usr][1].creds)

C1_Witness ==
    /\ Loaded
    /\ Stored(out.usr)
    /\ hist[out.usr][1].passwd = out.passwd
    /\ out.ret = PyDict(hist[out.usr][1].creds)
    /\ out.ret.dict \in Records

\* C2 (wrong-password rejection): a load(U, P') that follows a completed
\* store(U, P, R) with P' different from P yields AuthenticationFailed.
C2_WrongPasswordRejected ==
    (/\ Loaded
     /\ Stored(out.usr)
     /\ touched[out.usr] = "no"
     /\ hist[out.usr][1].passwd # out.passwd)
    => AuthenticationFailed

\* C3 as stated (tamper detection): once the bytes of U's vault file were
\* changed after store(U, P, R), load(U, P) yields AuthenticationFailed.
C3_AnyChangeRejected ==
    (/\ Loaded
     /\ Stored(out.usr)
     /\ hist[out.usr][1].passwd = out.passwd
     /\ touched[out.usr] # "no"
     /\ Content(credentials_file(out.usr)) # hist[out.usr][1].bytes)
    => AuthenticationFailed

\* C3 as amended: once bytes of U's vault file were edited after
\* store(U, P, R), load(U, P) yields AuthenticationFailed when the file no
\* longer base64-decodes to the token that was stored, and returns R when it
\* still does (bytes outside the alphabet were added); it returns no other
\* record.
C3_EditRejectedUnlessSameToken ==
    (/\ Loaded
     /\ Stored(out.usr)
     /\ hist[out.usr][1].passwd = out.passwd
     /\ touched[out.usr] = "edited"
     /\ Content(credentials_file(out.usr)) # hist[out.usr][1].bytes)
    => IF urlsafe_b64decode(Content(credentials_file(out.usr)))
            = urlsafe_b64decode(hist[out.usr][1].bytes)
       THEN ReturnsRecord(hist[out.usr][1].creds)
       ELSE AuthenticationFailed

C3_Witness ==
    /\ Loaded
    /\ Stored(out.usr)
    /\ hist[out.usr][1].passwd = out.passwd
    /\ touched[out.usr] = "edited"
    /\ \E i \in DOMAIN files[credentials_file(out.usr)] :
          files[credentials_file(out.usr)][i] = Garbage
    /\ AuthenticationFailed

\* C4 (missing user): a load for a username that has no vault file yields
\* NotFound: no record, the file-not-found message, nothing raised.
C4_MissingUser ==
    (out.op = "load" /\ credentials_file(out.usr) \notin DOMAIN files)
    => NotFound

C4_Witness ==
    /\ out.op = "load"
    /\ credentials_file(out.usr) \notin DOMAIN files
    /\ urandom > 0
    /\ ~tweet_dir
    /\ NotFound

\* C5 (reset scope): a confirmed reset whose deletion does not fail leaves no
\* vault file of any user and no directory, and a load for any user that
\* finds no directory yields NotFound.
C5_ResetScope ==
    /\ (ConfirmedReset /\ out.fault = "ok") => (~tweet_dir /\ DOMAIN files = {})
    /\ (out.op = "load" /\ ~tweet_dir) => NotFound

C5_Witness ==
    /\ ConfirmedReset
    /\ out.fault = "ok"
    /\ out.removed = {credentials_file(u) : u \in Users}
    /\ DOMAIN files = {}

\* C6 (idempotent overwrite): a store the file system does not fail raises
\* nothing, also over an existing vault file; after a completed store the
\* directory holds one vault file for each user stored and no other file; and
\* a load(U, P) that follows store(U, P, R1), store(U, P, R2) returns R2 and
\* not R1.
C6_IdempotentOverwrite ==
    /\ (out.op = "store" /\ out.fault = "ok") => out.raised = "none"
    /\ (out.op = "store" /\ out.raised = "none")
       => /\ DOMAIN files = {credentials_file(u) : u \in {v \in Users : hist[v] # <<>>}}
          /\ Cardinality(DOMAIN files) = Cardinality({v \in Users : hist[v] # <<>>})
    /\ (/\ Loaded
        /\ Stored(out.usr)
        /\ hist[out.usr][1].passwd = out.passwd
        /\ hist[out.usr][1].before \notin {None, PyDict(hist[out.usr][1].creds)})
       => /\ ReturnsRecord(hist[out.usr][1].creds)
          /\ out.ret # hist[out.usr][1].before

C6_Witness ==
    /\ Loaded
    /\ Stored(out.usr)
    /\ hist[out.usr][1].passwd = out.passwd
    /\ hist[out.usr][1].before \notin {None, PyDict(hist[out.usr][1].creds)}
    /\ Cardinality(DOMAIN files) = 1
    /\ ReturnsRecord(hist[out.usr][1].creds)

\* C7 (fresh ciphertext, same plaintext): a completed store(U, P, R) that
\* follows a completed store(U, P, R) writes other bytes than it, and a
\* load(U, P) after it returns R.
C7_FreshCiphertext ==
    \A u \in Users :
        (Stored(u) /\ hist[u][1].before = PyDict(hist[u][1].creds))
        => /\ hist[u][1].fresh
           /\ (Loaded /\ out.usr = u /\ out.passwd = hist[u][1].passwd)
              => ReturnsRecord(hist[u][1].creds)

C7_Witness ==
    /\ Loaded
    /\ Stored(out.usr)
    /\ hist[out.usr][1].before = PyDict(hist[out.usr][1].creds)
    /\ hist[out.usr][1].fresh
    /\ out.passwd = hist[out.usr][1].passwd
    /\ ReturnsRecord(hist[out.usr][1].creds)

\* C8 (failure propagation): no store, load or reset call ends with an
\* exception escaping to its caller.
C8_NoExceptionEscapes == out.raised = "none"

\* C9 (reset outcome): reset gives its caller Success when it deleted the
\* directory and NothingToDelete (None) when there was no directory, and the
\* configuration command reports the reset exactly when it receives Success.
C9_ResetOutcome ==
    out.op = "reset"
    => /\ DeletedMessage \in out.printed => out.ret = PyStr("success")
       /\ NoDirectoryMessage \in out.printed => out.ret = None
       /\ "Credentials successfully reset." \in out.printed
              <=> out.ret = PyStr("success")

\* C10 (the key is a function of the password alone): a ciphertext written by
\* store(U1, P, R) and placed as the vault file of another user U2 is accepted
\* by load(U2, P), which returns R.
C10_KeyOfPasswordAlone ==
    \A u1 \in Users :
        (/\ Loaded
         /\ out.usr # u1
         /\ Stored(u1)
         /\ hist[u1][1].passwd = out.passwd
         /\ touched[out.usr] = "replaced"
         /\ Content(credentials_file(out.usr)) = hist[u1][1].bytes)
        => ReturnsRecord(hist[u1][1].creds)

C10_Witness ==
    \E u1 \in Users :
        /\ Loaded
        /\ out.usr # u1
        /\ Stored(u1)
        /\ hist[u1][1].passwd = out.passwd
        /\ hist[out.usr] = <<>>
        /\ touched[out.usr] = "replaced"
        /\ files[credentials_file(out.usr)] = hist[u1][1].bytes
        /\ ReturnsRecord(hist[u1][1].creds)

\* C11 (whole-record persistence): every existing vault file whose last store
\* ran to completion holds exactly the token that store wrote, four parts
\* that decrypt to the serialisation of one complete seven-field record
\* stored for that user; no part of the file is the plaintext, the password
\* or the derived key.
C11_WholeRecord ==
    \A u \in Users :
        (credentials_file(u) \in DOMAIN files /\ Stored(u))
        => LET bytes == files[credentials_file(u)]
           IN  /\ DOMAIN hist[u][1].creds = FieldSet
               /\ bytes = hist[u][1].bytes
               /\ Len(bytes) = 4
               /\ decrypt_data(bytes, hist[u][1].passwd)
                     = [exc |-> "none", text |-> json_dumps(hist[u][1].creds)]
               /\ \A i \in DOMAIN bytes :
                     /\ bytes[i] # urlsafe_b64encode(
                                       <<text_encode(json_dumps(hist[u][1].creds))>>)[1]
                     /\ bytes[i] # [b64 |-> generate_key(hist[u][1].passwd)]
                     /\ bytes[i] # [b64 |-> [utf8 |-> hist[u][1].passwd]]

C11_Witness ==
    /\ \A u \in Users : credentials_file(u) \in DOMAIN files /\ Stored(u)
    /\ hist["alice"][1].creds # hist["bob"][1].creds
    /\ files[credentials_file("alice")] # files[credentials_file("bob")]
    /\ out.op = "store"

\* the stores of the last group of overlapping stores were all store(usr, P, ..)
\* for one password P, there were at least two, and all have ended
StoresRaced(usr) ==
    /\ StoresInFlight(usr) = {}
    /\ Cardinality(overlap.writers) >= 2
    /\ \A w \in overlap.writers : w.usr = usr
    /\ \A w, v \in overlap.writers : w.passwd = v.passwd

\* C12 (concurrent stores, last writer wins): once stores for the same user
\* and password that ran at the same time have all completed, the vault file
\* holds exactly the bytes one of them wrote, and a load(U, P) that runs after
\* them returns the record of one of them.
C12_LastWriterWins ==
    \A usr \in RaceUsers :
        StoresRaced(usr)
        => /\ Content(credentials_file(usr)) \in {w.bytes : w \in overlap.writers}
           /\ (/\ out.op = "load"
               /\ out.usr = usr
               /\ overlap.during = {}
               /\ \A w \in overlap.writers : w.passwd = out.passwd)
              => out.ret \in {PyDict(w.creds) : w \in overlap.writers}

\* force_delete was called by the last call: each of its paths prints one of these
ForceDeleteCalled ==
    out.printed \cap {DeletedMessage, NoDirectoryMessage,
                      "An unexpected error occurred: OSError"} # {}

\* C13 (reset is gated by two confirmations): a reset calls force_delete
\* exactly when the first answer is "y" in any case and the second is "y" or
\* "yes" in any case; after any other pair of answers it prints that the
\* operation was cancelled and leaves the directory and every vault file as
\* they were.
C13_ResetGated ==
    [][out'.op = "reset"
       => /\ ForceDeleteCalled' <=> ConfirmedReset'
          /\ ~ConfirmedReset'
             => /\ UNCHANGED <<tweet_dir, files>>
                /\ out'.printed = {CancelledMessage}]_vars

C13_Witness ==
    /\ out.op = "reset"
    /\ out.answers[1] \in {"y", "Y"}
    /\ out.answers[2] \notin {"y", "Y", "yes", "Yes", "YES"}
    /\ DOMAIN files # {}
    /\ out.printed = {CancelledMessage}

\* C14 (password confirmation on add_user): the command calls store only
\* from its loop test, with the password typed last, which equalled the
\* confirmation typed with it; and when the confirmation has failed twice
\* the next step of the command exits with status 1 and stores nothing.
C14_PasswordConfirmed ==
    [][\A p \in Terminal :
          /\ urandom' # urandom
             => /\ calls[p].pc = "while"
                /\ out'.op = "store"
                /\ out'.usr = calls[p].username
                /\ out'.passwd = calls[p].password
                /\ calls[p].password = calls[p].password_confirmation
          /\ (/\ calls[p].pc = "while"
              /\ calls[p].password # calls[p].password_confirmation
              /\ calls[p].confirmation_chances = 1
              /\ calls'[p] # calls[p])
             => /\ calls'[p].pc = "idle"
                /\ out'.raised = "SystemExit"
                /\ out'.ret = [status |-> 1]
                /\ UNCHANGED <<tweet_dir, files, urandom>>]_vars

C14_Witness ==
    /\ out.op = "add_user"
    /\ out.raised = "SystemExit"
    /\ out.ret = [status |-> 1]
    /\ "Maximum attempt limit reached. Exiting." \in out.printed
    /\ calls = NoCalls
    /\ DOMAIN files # {}

\* C15 (load is read-only): a load, whether it returns a record, finds no
\* file, rejects the file or fails to read it, leaves the directory and the
\* bytes of every vault file as they were and creates neither.
C15_LoadReadOnly ==
    [][out'.op = "load" => UNCHANGED <<tweet_dir, files>>]_vars

C15_Witness ==
    /\ Loaded
    /\ Stored(out.usr)
    /\ AuthenticationFailed
    /\ files[credentials_file(out.usr)] = hist[out.usr][1].bytes
    /\ \E u \in Users \ {out.usr} :
          /\ Stored(u)
          /\ files[credentials_file(u)] = hist[u][1].bytes

\* C16 (overwrite under a new password): after store(U, P1, R1) and then
\* store(U, P2, R2) with P2 different from P1, load(U, P2) returns R2,
\* load(U, P1) yields AuthenticationFailed, and no load returns a record other
\* than R2.
C16_OverwriteNewPassword ==
    (/\ Loaded
     /\ Stored(out.usr)
     /\ touched[out.usr] = "no"
     /\ hist[out.usr][1].over # None)
    => /\ out.passwd = hist[out.usr][1].passwd
          => ReturnsRecord(hist[out.usr][1].creds)
       /\ out.passwd = hist[out.usr][1].over.passwd => AuthenticationFailed
       /\ out.ret \in {None, PyDict(hist[out.usr][1].creds)}

\* C17 (load concurrent with an overwriting store): a load(U, P) that ran at
\* the same time as one store(U, P, R2) over a vault file that held R1 under
\* P returns R1 or R2 and prints nothing.
C17_LoadDuringStore ==
    (/\ out.op = "load"
     /\ Cardinality(overlap.during) = 1
     /\ \A s \in overlap.during :
           /\ s.usr = out.usr
           /\ s.passwd = out.passwd
           /\ "dict" \in DOMAIN s.before)
    => \A s \in overlap.during :
          /\ out.ret \in {s.before, PyDict(s.creds)}
          /\ out.printed = {}

\* C18 (the local tweet log follows the remote deletion): a delete command
\* whose remote delete call failed leaves tweets.json unchanged and does not
\* report "Tweet successfully deleted.".
C18_LogFollowsRemote ==
    [][(out'.op = "delete" /\ out'.fault = "delete_tweet")
       => /\ tweets' = tweets
          /\ "Tweet successfully deleted." \notin out'.printed]_vars

====
